---- MODULE Spec2Model ----
(***************************************************************************)
(* oqr: the condition algebra (query.py), the filter translator            *)
(* (mongostyle.py) and the canonicalization engine (normalization.py).     *)
(*                                                                         *)
(* Python values are modelled as tagged records: scalars, lists and        *)
(* insertion-ordered dicts.  Text is modelled as a tuple of character      *)
(* codes, so that rendering, joining and sorted() are computed as Python   *)
(* computes them.                                                          *)
(***************************************************************************)
EXTENDS Integers, Sequences, FiniteSets, TLC

VARIABLES conds, mongo, out

vars == <<conds, mongo, out>>

(***************************************************************************)
(* Bounds of the model.                                                    *)
(***************************************************************************)
\* combinator applications (and_/or_/not_) held in the registers of Spec
MaxOps == 1
\* combinator applications applied on top of a translated filter in SpecFE
MaxOpsFE == 1

(***************************************************************************)
(* Python values.                                                          *)
(***************************************************************************)
None == [t |-> "none"]
IntV(n) == [t |-> "int", n |-> n]
\* a float with one decimal digit, held in tenths: 3.0 is FloatV(30)
FloatV(n) == [t |-> "float", n |-> n]
StrV(s) == [t |-> "str", s |-> s]
BoolV(b) == [t |-> "bool", b |-> b]
ListV(items) == [t |-> "list", items |-> items]
\* a dict: its items in insertion order, each [k |-> key, v |-> value]
DictV(items) == [t |-> "dict", items |-> items]
KV(k, v) == [k |-> k, v |-> v]
EmptyDict == DictV(<<>>)

IsDict(x) == x.t = "dict"
Has(d, k) == \E i \in 1..Len(d.items) : d.items[i].k = k
Get(d, k) == d.items[CHOOSE i \in 1..Len(d.items) : d.items[i].k = k].v
\* next(iter(d.items()))
FirstItem(d) == d.items[1]
\* the dict left by d.pop(k)
Popped(d, k) == DictV(SelectSeq(d.items, LAMBDA e : e.k # k))

\* isinstance(x, (int, float)): bool is a subclass of int
IsNumber(x) == x.t \in {"int", "float", "bool"}
\* float(x) for a number
ToFloat(x) == IF x.t = "float" THEN x ELSE IF x.t = "bool" THEN FloatV(IF x.b THEN 10 ELSE 0) ELSE FloatV(10 * x.n)
\* int(x) for a number (truncation)
ToInt(x) == IF x.t = "int" THEN x ELSE IF x.t = "bool" THEN IntV(IF x.b THEN 1 ELSE 0) ELSE IntV(x.n \div 10)

(***************************************************************************)
(* Text: tuples of character codes.                                        *)
(***************************************************************************)
\* the characters of the string literals the model uses
Chars(s) ==
    CASE s = "f" -> <<102>>
      [] s = "g" -> <<103>>
      [] s = "x" -> <<120>>
      [] s = "y" -> <<121>>
      [] s = "x, f == y" -> <<120, 44, 32, 102, 32, 61, 61, 32, 121>>
      [] s = "3" -> <<51>>
      [] s = "and" -> <<97, 110, 100>>
      [] s = "or" -> <<111, 114>>
      [] s = "not" -> <<110, 111, 116>>
      [] s = "==" -> <<61, 61>>
      [] s = "!=" -> <<33, 61>>
      [] s = "<" -> <<60>>
      [] s = "<=" -> <<60, 61>>
      [] s = ">" -> <<62>>
      [] s = ">=" -> <<62, 61>>
      [] s = "gt" -> <<103, 116>>
      [] s = "gte" -> <<103, 116, 101>>
      [] s = "lt" -> <<108, 116>>
      [] s = "lte" -> <<108, 116, 101>>
      [] s = "$gt" -> <<36, 103, 116>>
      [] s = "$gte" -> <<36, 103, 116, 101>>
      [] s = "$lt" -> <<36, 108, 116>>
      [] s = "$lte" -> <<36, 108, 116, 101>>
      [] s = "$in" -> <<36, 105, 110>>
      [] s = "$ne" -> <<36, 110, 101>>
      [] s = "$exists" -> <<36, 101, 120, 105, 115, 116, 115>>
      [] s = "$regex" -> <<36, 114, 101, 103, 101, 120>>
      [] s = " " -> <<32>>
      [] s = ", " -> <<44, 32>>
      [] s = ": " -> <<58, 32>>
      [] s = "(" -> <<40>>
      [] s = ")" -> <<41>>
      [] s = "[" -> <<91>>
      [] s = "]" -> <<93>>
      [] s = "{" -> <<123>>
      [] s = "}" -> <<125>>
      [] s = "'" -> <<39>>
      [] s = "." -> <<46>>
      [] s = "exists(" -> <<101, 120, 105, 115, 116, 115, 40>>
      [] s = "match_all()" -> <<109, 97, 116, 99, 104, 95, 97, 108, 108, 40, 41>>
      [] s = "None" -> <<78, 111, 110, 101>>
      [] s = "True" -> <<84, 114, 117, 101>>
      [] s = "False" -> <<70, 97, 108, 115, 101>>

RECURSIVE IntStr(_)
\* str(n) for a non-negative int
IntStr(n) == IF n < 10 THEN <<48 + n>> ELSE IntStr(n \div 10) \o <<48 + (n % 10)>>

RECURSIVE StrLess(_, _)
\* s < t on Python str: code point order, a proper prefix first
StrLess(s, t) ==
    IF t = <<>> THEN FALSE
    ELSE IF s = <<>> THEN TRUE
    ELSE IF s[1] # t[1] THEN s[1] < t[1]
    ELSE StrLess(Tail(s), Tail(t))

RECURSIVE Join(_, _)
\* sep.join(parts)
Join(sep, parts) ==
    IF parts = <<>> THEN <<>>
    ELSE IF Len(parts) = 1 THEN parts[1]
    ELSE parts[1] \o sep \o Join(sep, Tail(parts))

RECURSIVE InsertSorted(_, _)
InsertSorted(x, ss) ==
    IF ss = <<>> THEN <<x>>
    ELSE IF StrLess(x, ss[1]) THEN <<x>> \o ss
    ELSE <<ss[1]>> \o InsertSorted(x, Tail(ss))

\* a renderer that forgets to sort
Unsorted(ss) == ss

RECURSIVE sorted(_)
\* sorted(list of str)
sorted(ss) == IF ss = <<>> THEN <<>> ELSE InsertSorted(ss[Len(ss)], sorted(SubSeq(ss, 1, Len(ss) - 1)))

RECURSIVE PyRepr(_)
\* repr(value): what str() of a list or a dict shows of its elements
PyRepr(x) ==
    CASE x.t = "none" -> Chars("None")
      [] x.t = "int" -> IntStr(x.n)
      [] x.t = "float" -> IntStr(x.n \div 10) \o Chars(".") \o IntStr(x.n % 10)
      [] x.t = "bool" -> IF x.b THEN Chars("True") ELSE Chars("False")
      [] x.t = "str" -> Chars("'") \o Chars(x.s) \o Chars("'")
      [] x.t = "list" -> Chars("[") \o Join(Chars(", "), [i \in 1..Len(x.items) |-> PyRepr(x.items[i])]) \o Chars("]")
      [] x.t = "dict" -> Chars("{") \o Join(Chars(", "), [i \in 1..Len(x.items) |-> Chars("'") \o Chars(x.items[i].k) \o Chars("'") \o Chars(": ") \o PyRepr(x.items[i].v)]) \o Chars("}")

\* str(value), as an f-string formats it
PyStr(x) == IF x.t = "str" THEN Chars(x.s) ELSE PyRepr(x)

(***************************************************************************)
(* query.py: QueryCondition and the Query combinators.                     *)
(***************************************************************************)
TypeError == [cls |-> "TypeError"]
ValueError == [cls |-> "ValueError"]
AttributeError == [cls |-> "AttributeError"]
Raised(x) == "cls" \in DOMAIN x /\ x.cls \in {"TypeError", "ValueError", "AttributeError"}

QueryCondition(field, value, operator) == [cls |-> "QueryCondition", field |-> field, value |-> value, operator |-> operator]
IsQueryCondition(x) == "cls" \in DOMAIN x /\ x.cls = "QueryCondition"
\* Index.__getattr__ / Index.__getitem__: a field reference
Field(name) == QueryCondition(StrV(name), None, None)
\* Index.match_all
match_all == QueryCondition(None, None, StrV("match_all"))

_build_query(self) ==
    CASE self.operator = StrV("term") -> DictV(<<KV("term", DictV(<<KV(self.field.s, self.value)>>))>>)
      [] self.operator = StrV("range") -> DictV(<<KV("range", DictV(<<KV(self.field.s, self.value)>>))>>)
      [] self.operator = StrV("terms") -> DictV(<<KV("terms", DictV(<<KV(self.field.s, self.value)>>))>>)
      [] self.operator = StrV("exists") -> DictV(<<KV("exists", DictV(<<KV("field", self.field)>>))>>)
      [] self.operator = StrV("bool") -> DictV(<<KV("bool", self.value)>>)
      [] self.operator = StrV("match_all") -> DictV(<<KV("match_all", EmptyDict)>>)
      [] OTHER -> ValueError

to_dict(self) == _build_query(self)

\* Query._validate_conditions: TRUE when no TypeError is raised
_validate_conditions(conditions) == \A i \in 1..Len(conditions) : IsQueryCondition(conditions[i])

\* Query.and_(*conditions): conditions is the argument tuple (or the single list)
and_(conditions) ==
    IF ~_validate_conditions(conditions) THEN TypeError
    ELSE QueryCondition(None, DictV(<<KV("must", ListV([i \in 1..Len(conditions) |-> to_dict(conditions[i])]))>>), StrV("bool"))

\* Query.or_(*conditions)
or_(conditions) ==
    IF ~_validate_conditions(conditions) THEN TypeError
    ELSE QueryCondition(None, DictV(<<KV("should", ListV([i \in 1..Len(conditions) |-> to_dict(conditions[i])]))>>), StrV("bool"))

\* Query.not_(condition)
\* (not_Twice: a must_not clause holding the negated body twice)
not_Twice(condition) ==
    IF ~IsQueryCondition(condition) THEN TypeError
    ELSE QueryCondition(None, DictV(<<KV("must_not", ListV(<<to_dict(condition), to_dict(condition)>>))>>), StrV("bool"))
not_(condition) ==
    IF ~IsQueryCondition(condition) THEN TypeError
    ELSE QueryCondition(None, DictV(<<KV("must_not", ListV(<<to_dict(condition)>>))>>), StrV("bool"))

__lt__(self, other) == QueryCondition(self.field, DictV(<<KV("lt", other)>>), StrV("range"))
__gt__(self, other) == QueryCondition(self.field, DictV(<<KV("gt", other)>>), StrV("range"))
__le__(self, other) == QueryCondition(self.field, DictV(<<KV("lte", other)>>), StrV("range"))
__ge__(self, other) == QueryCondition(self.field, DictV(<<KV("gte", other)>>), StrV("range"))

\* __eq__ without the numeric dual typing
EqSingleTerm(self, other) == QueryCondition(self.field, other, StrV("term"))
__eq__(self, other) ==
    IF IsNumber(other)
    THEN or_(<<QueryCondition(self.field, ToFloat(other), StrV("term")), QueryCondition(self.field, ToInt(other), StrV("term"))>>)
    ELSE IF other.t = "str" THEN QueryCondition(self.field, other, StrV("term"))
    ELSE TypeError

\* __ne__ returning the equality itself
NeWithoutNot(self, other) == __eq__(self, other)
__ne__(self, other) == LET e == __eq__(self, other) IN IF Raised(e) THEN e ELSE not_(e)

\* isin building a term leaf on the whole list
IsinAsTerm(self, values) == QueryCondition(self.field, values, StrV("term"))
isin(self, values) == QueryCondition(self.field, values, StrV("terms"))
exists(self) == QueryCondition(self.field, None, StrV("exists"))

(***************************************************************************)
(* query.py: Limit, ScriptScore and QueryConditionWithScoring.  A keyword *)
(* argument left out is None.                                              *)
(***************************************************************************)
IsLimit(x) == "cls" \in DOMAIN x /\ x.cls = "Limit"
IsScriptScore(x) == "cls" \in DOMAIN x /\ x.cls = "ScriptScore"
IsQueryConditionWithScoring(x) == "cls" \in DOMAIN x /\ x.cls = "QueryConditionWithScoring"

\* Limit.__init__
Limit(limit) == [cls |-> "Limit", limit |-> limit]
\* min / max of two ints
Min(x, y) == IF y.n < x.n THEN y ELSE x
Max(x, y) == IF y.n > x.n THEN y ELSE x

\* ScriptScore.__init__: params or {}
ScriptScore(script, params) == [cls |-> "ScriptScore", script |-> script, params |-> IF params = None \/ params = EmptyDict THEN EmptyDict ELSE params]

\* QueryConditionWithScoring.__init__: the wrapper, or ValueError; preceded
\* by a constructor that accepts scorers of both kinds
QueryConditionWithScoringUnchecked(condition, and_scorers, or_scorers, limit) ==
    [cls |-> "QueryConditionWithScoring", condition |-> condition,
     and_scorers |-> IF and_scorers = None THEN ListV(<<>>) ELSE and_scorers,
     or_scorers |-> IF or_scorers = None THEN ListV(<<>>) ELSE or_scorers,
     limit |-> limit]
QueryConditionWithScoring(condition, and_scorers, or_scorers, limit) ==
    LET self == [cls |-> "QueryConditionWithScoring", condition |-> condition,
                 and_scorers |-> IF and_scorers = None THEN ListV(<<>>) ELSE and_scorers,
                 or_scorers |-> IF or_scorers = None THEN ListV(<<>>) ELSE or_scorers,
                 limit |-> limit]
    IN  IF self.and_scorers.items # <<>> /\ self.or_scorers.items # <<>> THEN ValueError ELSE self

\* a wrapper & that keeps its own limit when given a Limit
QueryConditionWithScoring__and__KeepLimit(self, other) ==
    IF IsQueryCondition(other) THEN
        LET c == and_(<<self.condition, other>>)
        IN  IF Raised(c) THEN c ELSE QueryConditionWithScoring(c, self.and_scorers, self.or_scorers, self.limit)
    ELSE IF IsScriptScore(other) THEN
        IF self.or_scorers.items # <<>> THEN ValueError
        ELSE QueryConditionWithScoring(self.condition, ListV(Append(self.and_scorers.items, other)), self.or_scorers, self.limit)
    ELSE IF IsLimit(other) THEN
        QueryConditionWithScoring(self.condition, self.and_scorers, self.or_scorers, IF self.limit = None THEN other ELSE self.limit)
    ELSE IF IsQueryConditionWithScoring(other) THEN
        LET combined_condition == and_(<<self.condition, other.condition>>)
            combined_and_scorers == ListV(self.and_scorers.items \o other.and_scorers.items)
            combined_or_scorers == ListV(self.or_scorers.items \o other.or_scorers.items)
            combined_limit == IF self.limit # None /\ other.limit # None THEN Limit(Min(self.limit.limit, other.limit.limit))
                              ELSE IF self.limit # None THEN self.limit ELSE other.limit
        IN  IF Raised(combined_condition) THEN combined_condition
            ELSE IF combined_and_scorers.items # <<>> /\ combined_or_scorers.items # <<>> THEN ValueError
            ELSE QueryConditionWithScoring(combined_condition, combined_and_scorers, combined_or_scorers, combined_limit)
    ELSE TypeError
QueryConditionWithScoring__and__(self, other) ==
    IF IsQueryCondition(other) THEN
        LET c == and_(<<self.condition, other>>)
        IN  IF Raised(c) THEN c ELSE QueryConditionWithScoring(c, self.and_scorers, self.or_scorers, self.limit)
    ELSE IF IsScriptScore(other) THEN
        IF self.or_scorers.items # <<>> THEN ValueError
        ELSE QueryConditionWithScoring(self.condition, ListV(Append(self.and_scorers.items, other)), self.or_scorers, self.limit)
    ELSE IF IsLimit(other) THEN
        QueryConditionWithScoring(self.condition, self.and_scorers, self.or_scorers, IF self.limit = None THEN other ELSE Limit(Min(self.limit.limit, other.limit)))
    ELSE IF IsQueryConditionWithScoring(other) THEN
        LET combined_condition == and_(<<self.condition, other.condition>>)
            combined_and_scorers == ListV(self.and_scorers.items \o other.and_scorers.items)
            combined_or_scorers == ListV(self.or_scorers.items \o other.or_scorers.items)
            combined_limit == IF self.limit # None /\ other.limit # None THEN Limit(Min(self.limit.limit, other.limit.limit))
                              ELSE IF self.limit # None THEN self.limit ELSE other.limit
        IN  IF Raised(combined_condition) THEN combined_condition
            ELSE IF combined_and_scorers.items # <<>> /\ combined_or_scorers.items # <<>> THEN ValueError
            ELSE QueryConditionWithScoring(combined_condition, combined_and_scorers, combined_or_scorers, combined_limit)
    ELSE TypeError

QueryConditionWithScoring__or__(self, other) ==
    IF IsQueryCondition(other) THEN
        LET c == or_(<<self.condition, other>>)
        IN  IF Raised(c) THEN c ELSE QueryConditionWithScoring(c, self.and_scorers, self.or_scorers, self.limit)
    ELSE IF IsScriptScore(other) THEN
        IF self.and_scorers.items # <<>> THEN ValueError
        ELSE QueryConditionWithScoring(self.condition, self.and_scorers, ListV(Append(self.or_scorers.items, other)), self.limit)
    ELSE IF IsLimit(other) THEN
        QueryConditionWithScoring(self.condition, self.and_scorers, self.or_scorers, IF self.limit = None THEN other ELSE Limit(Max(self.limit.limit, other.limit)))
    ELSE IF IsQueryConditionWithScoring(other) THEN
        LET combined_condition == or_(<<self.condition, other.condition>>)
            combined_and_scorers == ListV(self.and_scorers.items \o other.and_scorers.items)
            combined_or_scorers == ListV(self.or_scorers.items \o other.or_scorers.items)
            combined_limit == IF self.limit # None /\ other.limit # None THEN Limit(Max(self.limit.limit, other.limit.limit))
                              ELSE IF self.limit # None THEN self.limit ELSE other.limit
        IN  IF Raised(combined_condition) THEN combined_condition
            ELSE IF combined_and_scorers.items # <<>> /\ combined_or_scorers.items # <<>> THEN ValueError
            ELSE QueryConditionWithScoring(combined_condition, combined_and_scorers, combined_or_scorers, combined_limit)
    ELSE TypeError

\* a wrapper ~ that drops the scorers and the limit
QueryConditionWithScoring__invert__Bare(self) ==
    LET c == not_(self.condition)
    IN  IF Raised(c) THEN c ELSE QueryConditionWithScoring(c, None, None, None)
QueryConditionWithScoring__invert__(self) ==
    LET c == not_(self.condition)
    IN  IF Raised(c) THEN c ELSE QueryConditionWithScoring(c, self.and_scorers, self.or_scorers, self.limit)

\* the scoring function to_dict writes for a scorer
ScoringFunction(scorer) ==
    DictV(<<KV("script_score", DictV(<<KV("script", DictV(<<KV("source", scorer.script), KV("params", scorer.params)>>))>>))>>)

\* QueryConditionWithScoring.to_dict; preceded by one that always aggregates
\* with "multiply"
QueryConditionWithScoring_to_dict_Multiply(self) ==
    LET query == to_dict(self.condition)
        scorers == IF self.and_scorers.items # <<>> THEN self.and_scorers.items ELSE self.or_scorers.items
        function_score == DictV(<<KV("query", query), KV("functions", ListV([i \in 1..Len(scorers) |-> ScoringFunction(scorers[i])])), KV("score_mode", StrV("multiply"))>>)
        scored == IF scorers # <<>> THEN DictV(<<KV("function_score", function_score)>>) ELSE query
    IN  IF Raised(query) THEN query
        ELSE IF self.limit # None THEN DictV(<<KV("size", self.limit.limit), KV("query", scored)>>)
        ELSE DictV(<<KV("query", scored)>>)
QueryConditionWithScoring_to_dict(self) ==
    LET query == to_dict(self.condition)
        scorers == IF self.and_scorers.items # <<>> THEN self.and_scorers.items ELSE self.or_scorers.items
        function_score == DictV(<<KV("query", query), KV("functions", ListV([i \in 1..Len(scorers) |-> ScoringFunction(scorers[i])])), KV("score_mode", StrV(IF self.and_scorers.items # <<>> THEN "multiply" ELSE "max"))>>)
        scored == IF scorers # <<>> THEN DictV(<<KV("function_score", function_score)>>) ELSE query
    IN  IF Raised(query) THEN query
        ELSE IF self.limit # None THEN DictV(<<KV("size", self.limit.limit), KV("query", scored)>>)
        ELSE DictV(<<KV("query", scored)>>)

Limit__and__(self, other) ==
    IF IsLimit(other) THEN Limit(Min(self.limit, other.limit))
    ELSE IF IsQueryCondition(other) THEN QueryConditionWithScoring(other, None, None, self)
    ELSE IF IsQueryConditionWithScoring(other) THEN QueryConditionWithScoring__and__(other, self)
    ELSE TypeError

Limit__or__(self, other) ==
    IF IsLimit(other) THEN Limit(Max(self.limit, other.limit))
    ELSE IF IsQueryCondition(other) THEN QueryConditionWithScoring(other, None, None, self)
    ELSE IF IsQueryConditionWithScoring(other) THEN QueryConditionWithScoring__or__(other, self)
    ELSE TypeError

ScriptScore__and__(self, other) ==
    IF IsQueryCondition(other) THEN QueryConditionWithScoring(other, ListV(<<self>>), None, None)
    ELSE IF IsQueryConditionWithScoring(other) THEN QueryConditionWithScoring__and__(other, self)
    ELSE TypeError

ScriptScore__or__(self, other) ==
    IF IsQueryCondition(other) THEN QueryConditionWithScoring(other, None, ListV(<<self>>), None)
    ELSE IF IsQueryConditionWithScoring(other) THEN QueryConditionWithScoring__or__(other, self)
    ELSE TypeError

\* Query.with_scoring
with_scoring(condition, and_scorers, or_scorers, limit) ==
    QueryConditionWithScoring(condition, and_scorers, or_scorers, IF "t" \in DOMAIN limit /\ limit.t \in {"int", "bool"} THEN Limit(limit) ELSE limit)

\* QueryCondition.__and__ / __or__ / __invert__; preceded by an & that never
\* hands over to its right operand
AndWithoutDelegation(self, other) == and_(<<self, other>>)
__and__(self, other) ==
    IF IsLimit(other) THEN Limit__and__(other, self)
    ELSE IF IsScriptScore(other) THEN ScriptScore__and__(other, self)
    ELSE IF IsQueryConditionWithScoring(other) THEN QueryConditionWithScoring__and__(other, self)
    ELSE and_(<<self, other>>)
__or__(self, other) ==
    IF IsLimit(other) THEN Limit__or__(other, self)
    ELSE IF IsScriptScore(other) THEN ScriptScore__or__(other, self)
    ELSE IF IsQueryConditionWithScoring(other) THEN QueryConditionWithScoring__or__(other, self)
    ELSE or_(<<self, other>>)
__invert__(self) == not_(self)

(***************************************************************************)
(* normalization.py: the canonical tree and its rewriting.                 *)
(***************************************************************************)
LogicalNode(op, children) == [node |-> "LogicalNode", op |-> op, children |-> children]
ComparisonNode(field, op, value) == [node |-> "ComparisonNode", field |-> field, op |-> op, value |-> value]
ExistsNode(field) == [node |-> "ExistsNode", field |-> field]
MatchAllNode == [node |-> "MatchAllNode"]
\* a non-dict handed to _query_to_tree is returned as it is
RawNode(value) == [node |-> "raw", value |-> value]
\* raise ValueError("Unsupported query type")
Unsupported == [node |-> "ValueError"]
\* "bool" in query for a query that is no container: TypeError
NotIterable == [node |-> "TypeError"]

IsLogical(n) == n.node = "LogicalNode"
IsComparison(n) == n.node = "ComparisonNode"

RECURSIVE _query_to_tree(_)
_query_to_tree(query0) ==
    IF ~IsDict(query0) THEN RawNode(query0)
    ELSE LET query == IF Has(query0, "query") THEN Get(query0, "query") ELSE query0 IN
    IF ~IsDict(query) THEN (IF query.t \in {"str", "list"} THEN Unsupported ELSE NotIterable)
    ELSE IF Has(query, "bool") THEN
        LET bool_query == Get(query, "bool")
            must == IF Has(bool_query, "must") THEN [i \in 1..Len(Get(bool_query, "must").items) |-> _query_to_tree(Get(bool_query, "must").items[i])] ELSE <<>>
            should == IF Has(bool_query, "should") THEN [i \in 1..Len(Get(bool_query, "should").items) |-> _query_to_tree(Get(bool_query, "should").items[i])] ELSE <<>>
            must_not == IF Has(bool_query, "must_not") THEN [i \in 1..Len(Get(bool_query, "must_not").items) |-> LogicalNode("not", <<_query_to_tree(Get(bool_query, "must_not").items[i])>>)] ELSE <<>>
            children == must \o should \o must_not
        IN  IF Len(children) = 1 THEN children[1]
            ELSE LogicalNode(IF Has(bool_query, "must") THEN "and" ELSE "or", children)
    ELSE IF Has(query, "terms") THEN
        LET e == FirstItem(Get(query, "terms"))
        IN  LogicalNode("or", [i \in 1..Len(e.v.items) |-> ComparisonNode(e.k, "==", e.v.items[i])])
    ELSE IF Has(query, "range") THEN
        LET e == FirstItem(Get(query, "range"))
            b == FirstItem(e.v)
        IN  ComparisonNode(e.k, b.k, b.v)
    ELSE IF Has(query, "exists") THEN ExistsNode(Get(Get(query, "exists"), "field").s)
    ELSE IF Has(query, "match_all") THEN MatchAllNode
    ELSE IF Has(query, "term") THEN
        LET e == FirstItem(Get(query, "term"))
        IN  ComparisonNode(e.k, "==", e.v)
    ELSE Unsupported

RECURSIVE HasUnsupported(_)
\* an exception propagates out of the recursion
HasUnsupported(n) ==
    \/ n.node \in {"ValueError", "TypeError"}
    \/ IsLogical(n) /\ \E i \in 1..Len(n.children) : HasUnsupported(n.children[i])

RECURSIVE RaisedIn(_)
\* the exception of the first clause, in the order of the recursion, that raised
RaisedIn(n) ==
    IF n.node \in {"ValueError", "TypeError"} THEN [cls |-> n.node]
    ELSE RaisedIn(n.children[CHOOSE i \in 1..Len(n.children) : HasUnsupported(n.children[i]) /\ \A j \in 1..(i - 1) : ~HasUnsupported(n.children[j])])

\* a normalization stage that rewrites nothing
NormalizeNothing(node) == node

RECURSIVE _normalize_tree(_)
_normalize_tree(node) ==
    IF IsLogical(node) THEN
        LET children == [i \in 1..Len(node.children) |-> _normalize_tree(node.children[i])]
            self == LogicalNode(node.op, children)
        IN  IF node.op = "not" THEN
                LET child == children[1] IN
                IF IsLogical(child) THEN
                    IF child.op = "and" THEN LogicalNode("or", [i \in 1..Len(child.children) |-> LogicalNode("not", <<_normalize_tree(child.children[i])>>)])
                    ELSE IF child.op = "or" THEN LogicalNode("and", [i \in 1..Len(child.children) |-> LogicalNode("not", <<_normalize_tree(child.children[i])>>)])
                    ELSE self
                ELSE IF IsComparison(child) THEN
                    IF child.op = ">" THEN ComparisonNode(child.field, "<=", child.value)
                    ELSE IF child.op = ">=" THEN ComparisonNode(child.field, "<", child.value)
                    ELSE IF child.op = "!=" THEN ComparisonNode(child.field, "==", child.value)
                    ELSE self
                ELSE self
            ELSE self
    ELSE IF IsComparison(node) THEN
        IF node.op \in {"gt", ">"} THEN LogicalNode("not", <<ComparisonNode(node.field, "<=", node.value)>>)
        ELSE IF node.op \in {"gte", ">="} THEN LogicalNode("not", <<ComparisonNode(node.field, "<", node.value)>>)
        ELSE IF node.op \in {"lt", "<"} THEN ComparisonNode(node.field, "<", node.value)
        ELSE IF node.op \in {"lte", "<="} THEN ComparisonNode(node.field, "<=", node.value)
        ELSE node
    ELSE node


RECURSIVE _reduce_double_negation(_)
_reduce_double_negation(node) ==
    IF IsLogical(node) THEN
        LET children == [i \in 1..Len(node.children) |-> _reduce_double_negation(node.children[i])]
        IN  IF node.op = "not" /\ IsLogical(children[1]) /\ children[1].op = "not"
            THEN _reduce_double_negation(children[1].children[1])
            ELSE LogicalNode(node.op, children)
    ELSE node

RECURSIVE ConcatAll(_)
ConcatAll(ss) == IF ss = <<>> THEN <<>> ELSE ss[1] \o ConcatAll(Tail(ss))

\* a flattening stage that leaves nested composites in place
NoFlatten(node) == node

RECURSIVE flatten_logical_nodes(_)
flatten_logical_nodes(node) ==
    IF IsLogical(node) THEN
        LET flat == [i \in 1..Len(node.children) |-> flatten_logical_nodes(node.children[i])]
            parts == [i \in 1..Len(flat) |-> IF IsLogical(flat[i]) /\ flat[i].op = node.op THEN flat[i].children ELSE <<flat[i]>>]
        IN  LogicalNode(node.op, ConcatAll(parts))
    ELSE node

RECURSIVE _tree_to_string(_)
_tree_to_string(node) ==
    IF IsLogical(node) THEN
        LET children_strs == sorted([i \in 1..Len(node.children) |-> _tree_to_string(node.children[i])])
        IN  Chars(node.op) \o Chars("(") \o Join(Chars(", "), children_strs) \o Chars(")")
    ELSE IF IsComparison(node) THEN Chars(node.field) \o Chars(" ") \o Chars(node.op) \o Chars(" ") \o PyStr(node.value)
    ELSE IF node.node = "ExistsNode" THEN Chars("exists(") \o Chars(node.field) \o Chars(")")
    ELSE IF node.node = "MatchAllNode" THEN Chars("match_all()")
    ELSE PyStr(node.value)

\* a returned str
Returned(s) == [cls |-> "str", s |-> s]

\* the string returned, or the exception raised while the tree is built
normalized_readable_query(query) ==
    LET root == _query_to_tree(query) IN
    IF HasUnsupported(root) THEN RaisedIn(root)
    ELSE LET normalized_root == _normalize_tree(root)
             reduced_root == _reduce_double_negation(normalized_root)
             flattened_root == flatten_logical_nodes(reduced_root)
         IN  Returned(_tree_to_string(flattened_root))

\* the tree normalized_readable_query renders
rendered_tree(query) == flatten_logical_nodes(_reduce_double_negation(_normalize_tree(_query_to_tree(query))))

\* canon(c): the canonical string of a condition's body
canon(c) == normalized_readable_query(to_dict(c))

(***************************************************************************)
(* mongostyle.py: the filter translator.  A translation returns the        *)
(* condition (or the exception raised) and the caller's mapping as the     *)
(* call leaves it.                                                         *)
(***************************************************************************)
\* bool(x)
Truthy(x) ==
    CASE x.t = "none" -> FALSE
      [] x.t = "bool" -> x.b
      [] x.t \in {"int", "float"} -> x.n # 0
      [] x.t = "str" -> x.s # ""
      [] OTHER -> x.items # <<>>

\* _handle_range_query renaming $gte / $lte to the strict bounds
_handle_range_query_strict(field, conditions) ==
    LET gt == IF Has(conditions, "$gt") THEN <<DictV(<<KV("gt", Get(conditions, "$gt"))>>)>> ELSE <<>>
        lt == IF Has(conditions, "$lt") THEN <<DictV(<<KV("lt", Get(conditions, "$lt"))>>)>> ELSE <<>>
        gte == IF Has(conditions, "$gte") THEN <<DictV(<<KV("gt", Get(conditions, "$gte"))>>)>> ELSE <<>>
        lte == IF Has(conditions, "$lte") THEN <<DictV(<<KV("lt", Get(conditions, "$lte"))>>)>> ELSE <<>>
        range_conditions == gt \o lt \o gte \o lte
    IN  and_([i \in 1..Len(range_conditions) |-> QueryCondition(StrV(field), range_conditions[i], StrV("range"))])

_handle_range_query(field, conditions) ==
    LET gt == IF Has(conditions, "$gt") THEN <<DictV(<<KV("gt", Get(conditions, "$gt"))>>)>> ELSE <<>>
        lt == IF Has(conditions, "$lt") THEN <<DictV(<<KV("lt", Get(conditions, "$lt"))>>)>> ELSE <<>>
        gte == IF Has(conditions, "$gte") THEN <<DictV(<<KV("gte", Get(conditions, "$gte"))>>)>> ELSE <<>>
        lte == IF Has(conditions, "$lte") THEN <<DictV(<<KV("lte", Get(conditions, "$lte"))>>)>> ELSE <<>>
        range_conditions == gt \o lt \o gte \o lte
    IN  and_([i \in 1..Len(range_conditions) |-> QueryCondition(StrV(field), range_conditions[i], StrV("range"))])

\* _handle_field_conditions testing $ne before the range bounds and $in
_handle_field_conditions_ne_first(field, conditions) ==
    IF Has(conditions, "$ne") THEN not_(QueryCondition(StrV(field), Get(conditions, "$ne"), StrV("term")))
    ELSE IF Has(conditions, "$gt") \/ Has(conditions, "$lt") \/ Has(conditions, "$gte") \/ Has(conditions, "$lte")
    THEN _handle_range_query(field, conditions)
    ELSE IF Has(conditions, "$in") THEN QueryCondition(StrV(field), Get(conditions, "$in"), StrV("terms"))
    ELSE IF Has(conditions, "$exists") THEN
        IF Truthy(Get(conditions, "$exists")) THEN QueryCondition(StrV(field), None, StrV("exists"))
        ELSE not_(QueryCondition(StrV(field), None, StrV("exists")))
    ELSE QueryCondition(StrV(field), conditions, StrV("term"))
_handle_field_conditions(field, conditions) ==
    IF Has(conditions, "$gt") \/ Has(conditions, "$lt") \/ Has(conditions, "$gte") \/ Has(conditions, "$lte")
    THEN _handle_range_query(field, conditions)
    ELSE IF Has(conditions, "$in") THEN QueryCondition(StrV(field), Get(conditions, "$in"), StrV("terms"))
    ELSE IF Has(conditions, "$ne") THEN not_(QueryCondition(StrV(field), Get(conditions, "$ne"), StrV("term")))
    ELSE IF Has(conditions, "$exists") THEN
        IF Truthy(Get(conditions, "$exists")) THEN QueryCondition(StrV(field), None, StrV("exists"))
        ELSE not_(QueryCondition(StrV(field), None, StrV("exists")))
    ELSE QueryCondition(StrV(field), conditions, StrV("term"))

\* the first exception among the results of a comprehension, if any
FirstRaised(rs) == rs[CHOOSE i \in 1..Len(rs) : Raised(rs[i]) /\ \A j \in 1..(i - 1) : ~Raised(rs[j])]

RECURSIVE _parse_mongo_query(_)
RECURSIVE _handle_logical(_)
\* _handle_logical_or and _handle_logical_and (the same comprehension): the
\* list of translated conditions, or the exception raised
_handle_logical(conditions) ==
    IF conditions.t \in {"none", "int", "float", "bool"} THEN TypeError
    ELSE IF conditions.t = "str" THEN (IF conditions.s = "" THEN ListV(<<>>) ELSE AttributeError)
    ELSE IF conditions.t = "dict" THEN (IF conditions.items = <<>> THEN ListV(<<>>) ELSE AttributeError)
    ELSE LET rs == [i \in 1..Len(conditions.items) |->
                       LET c == conditions.items[i] IN
                       IF c.t = "dict" THEN _parse_mongo_query(c).res
                       ELSE IF c.t \in {"str", "list"} THEN AttributeError
                       ELSE TypeError]
         IN  IF \E i \in 1..Len(rs) : Raised(rs[i]) THEN FirstRaised(rs) ELSE ListV(rs)

_parse_mongo_query(mongo_query) ==
    LET hasOr == Has(mongo_query, "$or")
        afterOr == IF hasOr THEN Popped(mongo_query, "$or") ELSE mongo_query
        or_conditions == IF hasOr THEN _handle_logical(Get(mongo_query, "$or")) ELSE ListV(<<>>)
        hasAnd == Has(afterOr, "$and")
        afterAnd == IF hasAnd THEN Popped(afterOr, "$and") ELSE afterOr
        and_conditions == IF hasAnd THEN _handle_logical(Get(afterOr, "$and")) ELSE ListV(<<>>)
        fields == [i \in 1..Len(afterAnd.items) |->
                      LET e == afterAnd.items[i] IN
                      IF IsDict(e.v) THEN _handle_field_conditions(e.k, e.v)
                      ELSE QueryCondition(StrV(e.k), e.v, StrV("term"))]
        conditions == (IF hasOr THEN <<or_(or_conditions.items)>> ELSE <<>>)
                      \o (IF hasAnd THEN <<and_(and_conditions.items)>> ELSE <<>>)
                      \o fields
    IN  IF Raised(or_conditions) THEN [res |-> or_conditions, dict |-> afterOr]
        ELSE IF Raised(and_conditions) THEN [res |-> and_conditions, dict |-> afterAnd]
        ELSE [res |-> IF Len(conditions) = 1 THEN conditions[1] ELSE and_(conditions), dict |-> afterAnd]

\* MongoQueryCondition.__init__: res is the condition built (a QueryCondition
\* with the parsed field, value and operator) or the exception raised
MongoQueryCondition(mongo_query) ==
    IF ~Truthy(mongo_query) THEN [res |-> QueryCondition(None, None, StrV("match_all")), dict |-> mongo_query]
    ELSE LET query_condition == _parse_mongo_query(mongo_query)
         IN  IF Raised(query_condition.res) THEN query_condition
             ELSE [res |-> QueryCondition(query_condition.res.field, query_condition.res.value, query_condition.res.operator), dict |-> query_condition.dict]

(***************************************************************************)
(* The caller: two registers holding conditions, a filter mapping, and     *)
(* the result of the last call of normalized_readable_query.               *)
(***************************************************************************)
Regs == {"a", "b"}

RECURSIVE BoolCount(_)
RECURSIVE BoolCountAll(_)
\* the number of bool composites in a query body
BoolCount(body) ==
    IF body.t = "dict" THEN BoolCountAll([i \in 1..Len(body.items) |-> body.items[i].v]) + (IF Has(body, "bool") THEN 1 ELSE 0)
    ELSE IF body.t = "list" THEN BoolCountAll(body.items)
    ELSE 0
BoolCountAll(values) == IF values = <<>> THEN 0 ELSE BoolCount(values[1]) + BoolCountAll(Tail(values))

Composites(r) == BoolCount(to_dict(conds[r]))

Init ==
    /\ conds = [r \in Regs |-> match_all]
    /\ mongo = EmptyDict
    /\ out = None

\* conds[r] := value; when the call raised, the register keeps its value and
\* out holds the exception.  max bounds the composites the registers hold
\* afterwards
Assign(r, value, max) ==
    IF Raised(value)
    THEN /\ out' = value
         /\ UNCHANGED <<conds, mongo>>
    ELSE /\ BoolCount(to_dict(value)) + Composites(CHOOSE s \in Regs : s # r) <= max
         /\ conds' = [conds EXCEPT ![r] = value]
         /\ out' = None
         /\ UNCHANGED mongo

\* index.<f> == v
Eq(r, f, v, max) == Assign(r, __eq__(Field(f), v), max)
\* index.<f> != v
Ne(r, f, v, max) == Assign(r, __ne__(Field(f), v), max)
\* index.<f> < v
Lt(r, f, v, max) == Assign(r, __lt__(Field(f), v), max)
\* index.<f> > v
Gt(r, f, v, max) == Assign(r, __gt__(Field(f), v), max)
\* index.<f> <= v
Le(r, f, v, max) == Assign(r, __le__(Field(f), v), max)
\* index.<f> >= v
Ge(r, f, v, max) == Assign(r, __ge__(Field(f), v), max)
\* index.<f>.isin(vs)
Isin(r, f, vs, max) == Assign(r, isin(Field(f), vs), max)
\* index.<f>.exists()
Exists(r, f, max) == Assign(r, exists(Field(f)), max)
\* conds[r] & conds[s]
And(r, s, max) == Assign(r, __and__(conds[r], conds[s]), max)
\* conds[r] | conds[s]
Or(r, s, max) == Assign(r, __or__(conds[r], conds[s]), max)
\* ~conds[r]
Not(r, max) == Assign(r, __invert__(conds[r]), max)

\* the caller writes a filter mapping
SetFilter(F) ==
    /\ mongo' = F
    /\ out' = None
    /\ UNCHANGED conds

\* conds[r] := MongoQueryCondition(mongo); the call may change the mapping
Translate(r) ==
    /\ conds' = IF Raised(MongoQueryCondition(mongo).res) THEN conds ELSE [conds EXCEPT ![r] = MongoQueryCondition(mongo).res]
    /\ mongo' = MongoQueryCondition(mongo).dict
    /\ out' = IF Raised(MongoQueryCondition(mongo).res) THEN MongoQueryCondition(mongo).res ELSE None

\* out := normalized_readable_query(body of conds[r])
Normalize(r) ==
    /\ out' = [reg |-> r, res |-> canon(conds[r])]
    /\ UNCHANGED <<conds, mongo>>

(***************************************************************************)
(* Spec: the condition algebra over two registers.                         *)
(***************************************************************************)
Next ==
    \/ \E r \in Regs, v \in {IntV(3), StrV("x")} : Eq(r, "f", v, MaxOps)
    \/ \E r \in Regs : Gt(r, "f", IntV(2), MaxOps)
    \/ \E r \in Regs : Lt(r, "f", IntV(4), MaxOps)
    \/ \E r \in Regs, s \in Regs : And(r, s, MaxOps)
    \/ \E r \in Regs, s \in Regs : Or(r, s, MaxOps)
    \/ \E r \in Regs : Not(r, MaxOps)
    \/ \E r \in Regs : Normalize(r)

Spec == Init /\ [][Next]_vars

(***************************************************************************)
(* What a query body says: its truth value under an assignment S of its    *)
(* leaf comparisons (the set of the atoms that hold).  f > v is the        *)
(* negation of the atom f <= v, and f >= v of the atom f < v.              *)
(***************************************************************************)
TermAtom(field, value) == [atom |-> "term", field |-> field, value |-> value]
BoundAtom(field, op, value) == [atom |-> op, field |-> field, value |-> value]
ExistsAtom(field) == [atom |-> "exists", field |-> field]

RECURSIVE Atoms(_)
RECURSIVE AtomsAll(_)
Atoms(body) ==
    IF Has(body, "bool") THEN AtomsAll([i \in 1..Len(Get(body, "bool").items) |-> Get(body, "bool").items[i].v])
    ELSE IF Has(body, "terms") THEN {TermAtom(FirstItem(Get(body, "terms")).k, FirstItem(Get(body, "terms")).v.items[i]) : i \in 1..Len(FirstItem(Get(body, "terms")).v.items)}
    ELSE IF Has(body, "range") THEN
        {BoundAtom(FirstItem(Get(body, "range")).k,
                   IF FirstItem(FirstItem(Get(body, "range")).v).k \in {"gt", "lte"} THEN "lte" ELSE "lt",
                   FirstItem(FirstItem(Get(body, "range")).v).v)}
    ELSE IF Has(body, "exists") THEN {ExistsAtom(Get(Get(body, "exists"), "field").s)}
    ELSE IF Has(body, "term") THEN {TermAtom(FirstItem(Get(body, "term")).k, FirstItem(Get(body, "term")).v)}
    ELSE {}
AtomsAll(clauses) ==
    IF clauses = <<>> THEN {}
    ELSE UNION {Atoms(clauses[1].items[i]) : i \in 1..Len(clauses[1].items)} \cup AtomsAll(Tail(clauses))

RECURSIVE Holds(_, _)
Holds(body, S) ==
    IF Has(body, "bool") THEN
        /\ Has(Get(body, "bool"), "must") => \A i \in 1..Len(Get(Get(body, "bool"), "must").items) : Holds(Get(Get(body, "bool"), "must").items[i], S)
        /\ Has(Get(body, "bool"), "should") => \E i \in 1..Len(Get(Get(body, "bool"), "should").items) : Holds(Get(Get(body, "bool"), "should").items[i], S)
        /\ Has(Get(body, "bool"), "must_not") => \A i \in 1..Len(Get(Get(body, "bool"), "must_not").items) : ~Holds(Get(Get(body, "bool"), "must_not").items[i], S)
    ELSE IF Has(body, "range") THEN
        (IF FirstItem(FirstItem(Get(body, "range")).v).k \in {"gt", "gte"} THEN Atoms(body) \cap S = {} ELSE Atoms(body) \subseteq S)
    ELSE IF Has(body, "match_all") THEN TRUE
    ELSE Atoms(body) \cap S # {}

\* the two conditions accept exactly the same assignments of their leaves
Equivalent(x, y) == \A S \in SUBSET (Atoms(to_dict(x)) \cup Atoms(to_dict(y))) : Holds(to_dict(x), S) = Holds(to_dict(y), S)

(***************************************************************************)
(* Claims about Spec.  A and B are the conditions the caller holds.        *)
(***************************************************************************)
A == conds["a"]
B == conds["b"]
\* a canonical string of register r has been returned
Normalized(r) == "reg" \in DOMAIN out /\ out.reg = r /\ out.res.cls = "str"

(***************************************************************************)
(* Two bodies that differ only in the order of the arguments of and_ / or_ *)
(* and, outside negations, in the grouping of nested and_ / or_ of the     *)
(* same kind, have the same argument form: a junction is the bag of the    *)
(* forms of its arguments, the arguments of a nested junction of the same  *)
(* kind counted with its own; under a not_ the grouping is kept.           *)
(***************************************************************************)
IsJunction(body, clause) == Has(body, "bool") /\ Len(Get(body, "bool").items) = 1 /\ FirstItem(Get(body, "bool")).k = clause
Arguments(body) == FirstItem(Get(body, "bool")).v.items
BagOfSeq(forms) == [e \in {forms[i] : i \in 1..Len(forms)} |-> Cardinality({i \in 1..Len(forms) : forms[i] = e})]

RECURSIVE Single(_)
\* a junction of one argument is that argument
Single(body) ==
    IF (IsJunction(body, "must") \/ IsJunction(body, "should")) /\ Len(Arguments(body)) = 1 THEN Single(Arguments(body)[1])
    ELSE body

RECURSIVE OrderForm(_)
\* the form of a body under a negation: only the order of arguments is dropped
OrderForm(body) ==
    IF IsJunction(body, "must") THEN [op |-> "and", args |-> BagOfSeq([i \in 1..Len(Arguments(body)) |-> OrderForm(Arguments(body)[i])])]
    ELSE IF IsJunction(body, "should") THEN [op |-> "or", args |-> BagOfSeq([i \in 1..Len(Arguments(body)) |-> OrderForm(Arguments(body)[i])])]
    ELSE IF IsJunction(body, "must_not") THEN [op |-> "not", args |-> BagOfSeq(<<OrderForm(Arguments(body)[1])>>)]
    ELSE [leaf |-> body]

RECURSIVE ArgumentForm(_)
RECURSIVE ArgumentForms(_, _)
ArgumentForm(body) ==
    IF IsJunction(Single(body), "must") THEN [op |-> "and", args |-> BagOfSeq(ArgumentForms(Arguments(Single(body)), "must"))]
    ELSE IF IsJunction(Single(body), "should") THEN [op |-> "or", args |-> BagOfSeq(ArgumentForms(Arguments(Single(body)), "should"))]
    ELSE OrderForm(Single(body))
ArgumentForms(bodies, clause) ==
    IF bodies = <<>> THEN <<>>
    ELSE (IF IsJunction(Single(bodies[1]), clause) THEN ArgumentForms(Arguments(Single(bodies[1])), clause) ELSE <<ArgumentForm(bodies[1])>>)
         \o ArgumentForms(Tail(bodies), clause)

\* the ways the caller can combine the two conditions once more
Variants ==
    {A, B, __and__(A, B), __and__(B, A), __or__(A, B), __or__(B, A),
     __or__(__or__(A, B), A), __or__(A, __or__(B, A)), or_(<<B, A, A>>),
     __and__(__and__(A, B), B), __and__(B, __and__(A, B)), and_(<<B, A, B>>),
     not_(__and__(A, B)), not_(__and__(B, A)), __or__(B, not_(__or__(A, B))), __or__(not_(__or__(B, A)), B)}

Operands == {A, B, not_(A), __and__(A, B)}
\* the leaf comparisons the caller builds
Leaves == {__eq__(Field("f"), StrV("x")), __eq__(Field("f"), IntV(3)), __gt__(Field("f"), IntV(2)), __lt__(Field("f"), IntV(4))}

\* C3: for any conditions a and b, not_(and_(a, b)) canonicalizes to the
\* string of or_(not_(a), not_(b)), and not_(or_(a, b)) to the string of
\* and_(not_(a), not_(b)).
DeMorgan ==
    /\ canon(not_(and_(<<A, B>>))) = canon(or_(<<not_(A), not_(B)>>))
    /\ canon(not_(or_(<<A, B>>))) = canon(and_(<<not_(A), not_(B)>>))

RECURSIVE LeafNegations(_)
\* every not node of the tree has one child, a Comparison, Exists or MatchAll
LeafNegations(n) ==
    IsLogical(n) =>
        /\ n.op = "not" => (Len(n.children) = 1 /\ n.children[1].node \in {"ComparisonNode", "ExistsNode", "MatchAllNode"})
        /\ \A i \in 1..Len(n.children) : LeafNegations(n.children[i])

\* C24: in the tree normalized_readable_query renders for a body of the
\* algebra, every not node has exactly one child and that child is a leaf,
\* whatever the nesting depth of the query.
NegationNormalForm ==
    \A x \in {A, not_(A), not_(__and__(A, B)), not_(__or__(A, B))} : LeafNegations(rendered_tree(to_dict(x)))

\* C4: for any condition a, leaf or composite, not_(not_(a)) canonicalizes
\* to the string of a.
DoubleNegation == \A x \in {A, __and__(A, B), __or__(A, B)} : canon(not_(not_(x))) = canon(x)

\* C5: for any conditions a and b, or_(a, b) and or_(b, a) canonicalize to
\* the same string, and so do and_(a, b) and and_(b, a).
Commutativity ==
    LET C == {[a |-> x, b |-> y, either |-> canon(or_(<<x, y>>)), both |-> canon(and_(<<x, y>>))] : x \in Operands, y \in Operands}
    IN  \A p \in C : \A q \in C : (p.a = q.b /\ p.b = q.a) => (p.either = q.either /\ p.both = q.both)

\* a | b has been built from two different conditions and canonicalized, and
\* the string returned is that of the different body b | a
CommutativityWitness ==
    /\ Normalized("a")
    /\ \E x \in Leaves : /\ A = __or__(x, B) /\ x # B /\ B \in Leaves
                         /\ to_dict(__or__(B, x)) # to_dict(A)
                         /\ out.res = canon(__or__(B, x))

(***************************************************************************)
(* The two front-ends side by side: the caller writes a filter mapping,    *)
(* translates it, builds conditions with the algebra and canonicalizes.    *)
(***************************************************************************)
Bounds == <<KV("$gt", IntV(2)), KV("$lt", IntV(4)), KV("$gte", IntV(2)), KV("$lte", IntV(4))>>
\* {f: {...}} with every non-empty choice of the four bounds, and one written
\* in another key order
RangeFilters ==
    {DictV(<<KV("f", DictV(SelectSeq(Bounds, LAMBDA e : e.k \in S)))>>) : S \in (SUBSET {"$gt", "$lt", "$gte", "$lte"}) \ {{}}}
    \cup {DictV(<<KV("f", DictV(<<KV("$lt", IntV(4)), KV("$gt", IntV(2))>>))>>)}
ScalarFilters == {DictV(<<KV("f", StrV("x"))>>), DictV(<<KV("g", StrV("x"))>>), DictV(<<KV("f", IntV(3))>>), DictV(<<KV("f", FloatV(35))>>)}
OperatorFilters ==
    {DictV(<<KV("f", DictV(<<KV("$in", ListV(<<IntV(2), IntV(4)>>))>>))>>),
     DictV(<<KV("f", DictV(<<KV("$in", ListV(<<StrV("x"), StrV("y")>>))>>))>>),
     DictV(<<KV("f", DictV(<<KV("$ne", StrV("x"))>>))>>),
     DictV(<<KV("f", DictV(<<KV("$exists", BoolV(TRUE))>>))>>),
     DictV(<<KV("f", DictV(<<KV("$exists", BoolV(FALSE))>>))>>)}
\* the element lists of the $or / $and filters
Triples ==
    {<<DictV(<<KV("f", DictV(<<KV("$gt", IntV(2)), KV("$lt", IntV(4))>>))>>), DictV(<<KV("g", StrV("x"))>>), DictV(<<KV("f", DictV(<<KV("$in", ListV(<<IntV(2), IntV(4)>>))>>))>>)>>,
     <<DictV(<<KV("$or", ListV(<<DictV(<<KV("f", StrV("x"))>>), DictV(<<KV("g", StrV("x"))>>)>>))>>), DictV(<<KV("f", DictV(<<KV("$ne", StrV("x"))>>))>>), DictV(<<KV("f", DictV(<<KV("$exists", BoolV(TRUE))>>))>>)>>,
     <<DictV(<<KV("$and", ListV(<<DictV(<<KV("f", StrV("x"))>>), DictV(<<KV("g", StrV("x"))>>)>>))>>), DictV(<<KV("f", DictV(<<KV("$lt", IntV(4))>>))>>), DictV(<<KV("g", StrV("x"))>>)>>}
LogicalFilters == {DictV(<<KV(k, ListV(t))>>) : k \in {"$or", "$and"}, t \in Triples}
\* $or / $and filters with an empty mapping among their elements
EmptyElementFilters ==
    {DictV(<<KV("$or", ListV(<<EmptyDict>>))>>),
     DictV(<<KV("$and", ListV(<<EmptyDict, DictV(<<KV("f", StrV("x"))>>)>>))>>)}
\* $or / $and filters whose value is not a list of mappings, alone and next
\* to a field entry
MalformedFilters ==
    {DictV(<<KV("$or", IntV(3))>>),
     DictV(<<KV("$and", ListV(<<IntV(3)>>))>>),
     DictV(<<KV("$or", IntV(3)), KV("g", StrV("x"))>>),
     DictV(<<KV("g", StrV("x")), KV("$and", ListV(<<DictV(<<KV("f", StrV("x"))>>), IntV(3)>>))>>)}
\* {f: {...}} with operator keys of several families, and with none
MixedFilters ==
    {DictV(<<KV("f", DictV(<<KV("$gt", IntV(2)), KV("$ne", StrV("x"))>>))>>),
     DictV(<<KV("f", DictV(<<KV("$ne", StrV("x")), KV("$lt", IntV(4))>>))>>),
     DictV(<<KV("f", DictV(<<KV("$in", ListV(<<IntV(2), IntV(4)>>)), KV("$ne", StrV("x"))>>))>>),
     DictV(<<KV("f", DictV(<<KV("$exists", BoolV(TRUE)), KV("$in", ListV(<<IntV(2), IntV(4)>>))>>))>>),
     DictV(<<KV("f", DictV(<<KV("$ne", StrV("x")), KV("$exists", BoolV(FALSE))>>))>>),
     DictV(<<KV("f", DictV(<<KV("g", StrV("x"))>>))>>)}
Filters == {EmptyDict} \cup RangeFilters \cup ScalarFilters \cup OperatorFilters \cup LogicalFilters \cup EmptyElementFilters \cup MixedFilters

\* exceptions.py: InvalidOpenSearchOperation(message, operation)
InvalidOpenSearchOperation(operation) == [cls |-> "InvalidOpenSearchOperation", operation |-> operation]

\* MongoStyleOperations._convert_filter: res is the body or the exception
\* raised, which carries the caller's mapping as the translation left it
_convert_filter(mongo_filter) ==
    LET converted(query) ==
            [res |-> IF Raised(query.res) THEN InvalidOpenSearchOperation(query.dict) ELSE to_dict(query.res),
             dict |-> query.dict]
    IN  converted(MongoQueryCondition(mongo_filter))

\* Index._get_search_body: res is the search body or the exception raised,
\* dict the caller's mapping as the call leaves it.  translated is
\* MongoQueryCondition(query) for an absent query or a mapping, and
\* MongoQueryCondition({}) for a limit
_get_search_body(query) ==
    LET search_body(translated) ==
            LET wrapped ==
                    IF "t" \in DOMAIN query /\ query.t \in {"none", "dict"}
                    THEN (IF Raised(translated.res) THEN translated.res ELSE QueryConditionWithScoring(translated.res, None, None, None))
                    ELSE IF IsLimit(query) THEN QueryConditionWithScoring(translated.res, None, None, query)
                    ELSE IF IsScriptScore(query) THEN TypeError
                    ELSE IF IsQueryCondition(query) THEN QueryConditionWithScoring(query, None, None, None)
                    ELSE query
            IN  [res |-> IF Raised(wrapped) THEN wrapped
                         ELSE IF IsQueryConditionWithScoring(wrapped) THEN QueryConditionWithScoring_to_dict(wrapped)
                         ELSE AttributeError,
                 dict |-> IF "t" \in DOMAIN query /\ query.t = "dict" THEN translated.dict ELSE query]
    IN  search_body(MongoQueryCondition(IF "t" \in DOMAIN query /\ query.t \in {"none", "dict"} THEN query ELSE EmptyDict))

\* out := _convert_filter(mongo); the call may change the mapping
ConvertFilter ==
    \E r \in {_convert_filter(mongo)} :
        /\ out' = [call |-> "_convert_filter", res |-> r.res]
        /\ mongo' = r.dict
        /\ UNCHANGED conds

\* out := _get_search_body(mongo); the call may change the mapping
SearchFilter ==
    \E r \in {_get_search_body(mongo)} :
        /\ out' = [call |-> "_get_search_body", query |-> mongo, res |-> r.res]
        /\ mongo' = r.dict
        /\ UNCHANGED conds

\* out := _get_search_body(query) for a query that is not the filter mapping
SearchBody(query) ==
    /\ out' = [call |-> "_get_search_body", query |-> query, res |-> _get_search_body(query).res]
    /\ UNCHANGED <<conds, mongo>>

\* what the caller hands to _get_search_body besides a filter mapping:
\* nothing, the condition of register a, that condition wrapped with a scorer
\* and a limit, a limit, a scorer
Queries ==
    {None, conds["a"], with_scoring(conds["a"], ListV(<<ScriptScore(StrV("s1"), None)>>), None, IntV(3)),
     Limit(IntV(3)), ScriptScore(StrV("s1"), None)}

\* the right-hand sides of index.f == v
EqValues == {StrV("x"), IntV(3), FloatV(35), BoolV(TRUE), None, ListV(<<IntV(3)>>)}

NextFE ==
    \/ \E F \in Filters : SetFilter(F)
    \/ Translate("a")
    \/ \E v \in EqValues : Eq("a", "f", v, MaxOpsFE)
    \/ Ne("a", "f", StrV("x"), MaxOpsFE)
    \/ Lt("a", "f", IntV(4), MaxOpsFE)
    \/ Gt("a", "f", IntV(2), MaxOpsFE)
    \/ Le("a", "f", IntV(4), MaxOpsFE)
    \/ Ge("a", "f", IntV(2), MaxOpsFE)
    \/ \E vs \in {<<IntV(2), IntV(4)>>, <<StrV("x"), StrV("y")>>, <<StrV("x, f == y")>>} : Isin("a", "f", ListV(vs), MaxOpsFE)
    \/ Exists("a", "f", MaxOpsFE)
    \/ Not("a", MaxOpsFE)
    \/ Normalize("a")

SpecFE == Init /\ [][NextFE]_vars

(***************************************************************************)
(* The entry points of the translation: the caller writes a filter         *)
(* mapping, well formed or not, and hands it, a condition, a wrapper, a    *)
(* limit or a scorer to MongoQueryCondition, _convert_filter and           *)
(* _get_search_body.                                                       *)
(***************************************************************************)
\* the filters the caller writes here
EntryFilters ==
    {EmptyDict, DictV(<<KV("f", StrV("x"))>>), DictV(<<KV("f", DictV(<<KV("$gt", IntV(2)), KV("$lt", IntV(4))>>))>>),
     DictV(<<KV("$or", ListV(<<DictV(<<KV("f", StrV("x"))>>), DictV(<<KV("g", StrV("x"))>>)>>)), KV("g", StrV("x"))>>)}
    \cup MalformedFilters

NextEP ==
    \/ \E F \in EntryFilters : SetFilter(F)
    \/ Translate("a")
    \/ ConvertFilter
    \/ SearchFilter
    \/ \E query \in Queries : SearchBody(query)
    \/ \E v \in {StrV("x"), IntV(3)} : Eq("a", "f", v, MaxOpsFE)
    \/ Gt("a", "f", IntV(2), MaxOpsFE)
    \/ Not("a", MaxOpsFE)

SpecEP == Init /\ [][NextEP]_vars

(***************************************************************************)
(* Claims about SpecFE.                                                    *)
(***************************************************************************)
\* the condition the translator builds from the filter the caller holds
Translation == MongoQueryCondition(mongo).res
IsFieldFilter(F) == Len(F.items) = 1 /\ F.items[1].k \notin {"$or", "$and"}
IsRangeFilter(F) == IsFieldFilter(F) /\ IsDict(F.items[1].v) /\ F.items[1].v.items # <<>> /\ \A i \in 1..Len(F.items[1].v.items) : F.items[1].v.items[i].k \in {"$gt", "$lt", "$gte", "$lte"}
IsOperatorFilter(F, operator) == IsFieldFilter(F) /\ IsDict(F.items[1].v) /\ Len(F.items[1].v.items) = 1 /\ F.items[1].v.items[1].k = operator
IsLogicalFilter(F, k) == Len(F.items) = 1 /\ F.items[1].k = k /\ F.items[1].v.t = "list" /\ Len(F.items[1].v.items) = 3

\* the algebra comparison written for one bound of a filter
Comparison(f, bound) ==
    CASE bound.k = "$gt" -> __gt__(Field(f), bound.v)
      [] bound.k = "$lt" -> __lt__(Field(f), bound.v)
      [] bound.k = "$gte" -> __ge__(Field(f), bound.v)
      [] bound.k = "$lte" -> __le__(Field(f), bound.v)

RECURSIVE AlgebraForm(_)
\* the condition the caller writes with the algebra for the filter F
AlgebraForm(F) ==
    IF F.items[1].k = "$or" THEN or_([i \in 1..Len(F.items[1].v.items) |-> AlgebraForm(F.items[1].v.items[i])])
    ELSE IF F.items[1].k = "$and" THEN and_([i \in 1..Len(F.items[1].v.items) |-> AlgebraForm(F.items[1].v.items[i])])
    ELSE IF IsRangeFilter(F) THEN
        (IF Len(F.items[1].v.items) = 1 THEN Comparison(F.items[1].k, F.items[1].v.items[1])
         ELSE and_([i \in 1..Len(F.items[1].v.items) |-> Comparison(F.items[1].k, F.items[1].v.items[i])]))
    ELSE IF IsOperatorFilter(F, "$in") THEN isin(Field(F.items[1].k), F.items[1].v.items[1].v)
    ELSE IF IsOperatorFilter(F, "$ne") THEN __ne__(Field(F.items[1].k), F.items[1].v.items[1].v)
    ELSE IF IsOperatorFilter(F, "$exists") THEN
        (IF Truthy(F.items[1].v.items[1].v) THEN exists(Field(F.items[1].k)) ELSE __invert__(exists(Field(F.items[1].k))))
    ELSE __eq__(Field(F.items[1].k), F.items[1].v)

\* C2: if a condition built with the algebra and the translation of a filter
\* get the same canonical string, the two are logically equivalent.
Soundness == (~Raised(Translation) /\ canon(A) = canon(Translation)) => Equivalent(A, Translation)

\* the three conditions the caller writes for the elements of a logical filter
Elements(F) == [i \in 1..3 |-> AlgebraForm(F.items[1].v.items[i])]

RangeAgreement ==
    IsRangeFilter(mongo) =>
        /\ canon(Translation) = canon(AlgebraForm(mongo))
        /\ (Len(FirstItem(mongo).v.items) = 2 /\ Has(FirstItem(mongo).v, "$gt") /\ Has(FirstItem(mongo).v, "$lt")) =>
            /\ canon(__and__(__gt__(Field(FirstItem(mongo).k), Get(FirstItem(mongo).v, "$gt")), __lt__(Field(FirstItem(mongo).k), Get(FirstItem(mongo).v, "$lt")))) = canon(Translation)
            /\ canon(and_(<<__gt__(Field(FirstItem(mongo).k), Get(FirstItem(mongo).v, "$gt")), __lt__(Field(FirstItem(mongo).k), Get(FirstItem(mongo).v, "$lt"))>>)) = canon(Translation)
            /\ canon(not_(or_(<<__le__(Field(FirstItem(mongo).k), Get(FirstItem(mongo).v, "$gt")), __ge__(Field(FirstItem(mongo).k), Get(FirstItem(mongo).v, "$lt"))>>))) = canon(Translation)

\* a filter with the two bounds $lt and $gt has been translated and
\* canonicalized; the algebra form is a different body with the same string
RangeAgreementWitness ==
    /\ IsRangeFilter(mongo) /\ Len(FirstItem(mongo).v.items) = 2 /\ Has(FirstItem(mongo).v, "$gt") /\ Has(FirstItem(mongo).v, "$lt")
    /\ A = Translation /\ Normalized("a")
    /\ to_dict(AlgebraForm(mongo)) # to_dict(A)
    /\ out.res = canon(not_(or_(<<__le__(Field("f"), IntV(2)), __ge__(Field("f"), IntV(4))>>)))

\* C8: for a field f and a string v, ~(f == v), not_(f == v), f != v and the
\* translation of {f: {"$ne": v}} canonicalize to the same string.
NegationForms ==
    (IsOperatorFilter(mongo, "$ne") /\ FirstItem(FirstItem(mongo).v).v.t = "str") =>
        /\ canon(__invert__(__eq__(Field(FirstItem(mongo).k), FirstItem(FirstItem(mongo).v).v))) = canon(Translation)
        /\ canon(not_(__eq__(Field(FirstItem(mongo).k), FirstItem(FirstItem(mongo).v).v))) = canon(Translation)
        /\ canon(__ne__(Field(FirstItem(mongo).k), FirstItem(FirstItem(mongo).v).v)) = canon(Translation)

\* f != "x" has been built and canonicalized while the caller holds the
\* filter {f: {"$ne": "x"}}
NegationFormsWitness ==
    /\ IsOperatorFilter(mongo, "$ne") /\ FirstItem(FirstItem(mongo).v).v.t = "str"
    /\ A = __ne__(Field(FirstItem(mongo).k), FirstItem(FirstItem(mongo).v).v)
    /\ Normalized("a") /\ out.res = canon(Translation)

\* C9: f.isin(vs) canonicalizes to the string of the translation of
\* {f: {"$in": vs}}; ~ and not_ of that translation and not_(f.isin(vs)) get
\* one string; f.exists() agrees with {f: {"$exists": true}} and ~f.exists()
\* with {f: {"$exists": false}}.
MembershipAndExistence ==
    /\ IsOperatorFilter(mongo, "$in") =>
        /\ canon(isin(Field(FirstItem(mongo).k), FirstItem(FirstItem(mongo).v).v)) = canon(Translation)
        /\ canon(__invert__(Translation)) = canon(not_(Translation))
        /\ canon(not_(Translation)) = canon(not_(isin(Field(FirstItem(mongo).k), FirstItem(FirstItem(mongo).v).v)))
    /\ (IsOperatorFilter(mongo, "$exists") /\ FirstItem(FirstItem(mongo).v).v = BoolV(TRUE)) =>
        canon(exists(Field(FirstItem(mongo).k))) = canon(Translation)
    /\ (IsOperatorFilter(mongo, "$exists") /\ FirstItem(FirstItem(mongo).v).v = BoolV(FALSE)) =>
        canon(__invert__(exists(Field(FirstItem(mongo).k)))) = canon(Translation)

\* the translation of a filter {f: {"$in": vs}} has been negated and
\* canonicalized, and the string is that of not_(f.isin(vs))
MembershipAndExistenceWitness ==
    /\ IsOperatorFilter(mongo, "$in")
    /\ A = __invert__(Translation) /\ Normalized("a")
    /\ out.res = canon(not_(isin(Field(FirstItem(mongo).k), FirstItem(FirstItem(mongo).v).v)))

\* C10: for a string v the translation of {f: v} and f == v canonicalize to
\* the same string; for a number n the translation of {f: n} and f == n do
\* not.
ScalarEquality ==
    (IsFieldFilter(mongo) /\ ~IsDict(FirstItem(mongo).v)) =>
        /\ FirstItem(mongo).v.t = "str" => canon(Translation) = canon(__eq__(Field(FirstItem(mongo).k), FirstItem(mongo).v))
        /\ FirstItem(mongo).v.t \in {"int", "float"} => canon(Translation) # canon(__eq__(Field(FirstItem(mongo).k), FirstItem(mongo).v))

\* f == 3 has been built and canonicalized while the caller holds the filter
\* {f: 3}, whose translation has another string
ScalarEqualityWitness ==
    /\ IsFieldFilter(mongo) /\ FirstItem(mongo).v.t = "int"
    /\ A = __eq__(Field(FirstItem(mongo).k), FirstItem(mongo).v)
    /\ Normalized("a") /\ out.res # canon(Translation)

\* C11: when register a holds f == n for a number n, its body is a bool with
\* the single clause "should" holding two term leaves on f, float(n) first and
\* int(n) second; when it holds f == s for a string s, its body is one term
\* leaf; for a value of any other type the comparison raises TypeError.
DualTyping ==
    \A v \in EqValues :
        LET e == __eq__(Field("f"), v) IN
        /\ v.t \in {"int", "float", "bool"} =>
            /\ ~Raised(e)
            /\ A = e => to_dict(A) = DictV(<<KV("bool", DictV(<<KV("should", ListV(<<DictV(<<KV("term", DictV(<<KV("f", ToFloat(v))>>))>>), DictV(<<KV("term", DictV(<<KV("f", ToInt(v))>>))>>)>>))>>))>>)
        /\ v.t = "str" =>
            /\ ~Raised(e)
            /\ A = e => to_dict(A) = DictV(<<KV("term", DictV(<<KV("f", v)>>))>>)
        /\ v.t \notin {"int", "float", "bool", "str"} => e = TypeError

\* register a holds f == 3.5, serialized as the leaves 3.5 and 3, and a later
\* comparison of f with a value of another type has raised TypeError
DualTypingWitness ==
    /\ A = __eq__(Field("f"), FloatV(35))
    /\ to_dict(A) = DictV(<<KV("bool", DictV(<<KV("should", ListV(<<DictV(<<KV("term", DictV(<<KV("f", FloatV(35))>>))>>), DictV(<<KV("term", DictV(<<KV("f", IntV(3))>>))>>)>>))>>))>>)
    /\ out = TypeError

\* the bodies of the elements of the translation of a filter {k: [...]}
ElementBodies(F) == Get(Get(to_dict(MongoQueryCondition(F).res), "bool"), IF F.items[1].k = "$or" THEN "should" ELSE "must").items

\* C17: the translation of an absent or empty filter is the match_all leaf,
\* with the canonical string "match_all()"; an empty mapping among the
\* elements of a $or / $and filter is translated to the match_all leaf too.
EmptyFilter ==
    /\ MongoQueryCondition(None).res = match_all
    /\ mongo = EmptyDict => (Translation = match_all /\ canon(Translation) = Returned(Chars("match_all()")))
    /\ (Len(mongo.items) = 1 /\ mongo.items[1].k \in {"$or", "$and"}) =>
        \A i \in 1..Len(mongo.items[1].v.items) :
            mongo.items[1].v.items[i] = EmptyDict =>
                /\ ElementBodies(mongo)[i] = to_dict(match_all)
                /\ normalized_readable_query(ElementBodies(mongo)[i]) = Returned(Chars("match_all()"))

\* C18: a translation leaves the caller's mapping as it was.
TranslatorPurity == [][Translate("a") => mongo' = mongo]_vars

(***************************************************************************)
(* Claims about SpecEP.                                                    *)
(***************************************************************************)
\* the value of $or or of $and in F is not a list of mappings
NotMappings(v) == v.t # "list" \/ \E i \in 1..Len(v.items) : v.items[i].t # "dict"
IsMalformed(F) == \E i \in 1..Len(F.items) : F.items[i].k \in {"$or", "$and"} /\ NotMappings(F.items[i].v)
\* what a call raised, whether out holds it bare or in a call record
RaisedBy(o) == IF "res" \in DOMAIN o THEN o.res ELSE o

\* C21: a filter whose $or or $and value is not a list of mappings makes the
\* translation fail, at each of its three entry points (MongoQueryCondition,
\* _convert_filter, _get_search_body), with an InvalidOpenSearchOperation
\* that carries the offending mapping.
TranslationFailure ==
    [][((Translate("a") \/ ConvertFilter \/ SearchFilter) /\ IsMalformed(mongo)) =>
        /\ "cls" \in DOMAIN RaisedBy(out')
        /\ RaisedBy(out').cls = "InvalidOpenSearchOperation"
        /\ RaisedBy(out').operation = mongo]_vars

\* C25: _get_search_body returns a query body for every kind of input its
\* signature declares; a bare Limit gives a size-capped match_all query and
\* a bare ScriptScore a scored match_all query.
SearchBodyTotal ==
    ("call" \in DOMAIN out /\ out.call = "_get_search_body" /\ ~("t" \in DOMAIN out.query /\ IsDict(out.query) /\ IsMalformed(out.query))) =>
        /\ "t" \in DOMAIN out.res /\ IsDict(out.res) /\ Has(out.res, "query")
        /\ IsLimit(out.query) => out.res = DictV(<<KV("size", out.query.limit), KV("query", to_dict(match_all))>>)
        /\ IsScriptScore(out.query) =>
            /\ Has(Get(out.res, "query"), "function_score")
            /\ Get(Get(Get(out.res, "query"), "function_score"), "query") = to_dict(match_all)

(***************************************************************************)
(* Further claims about SpecFE.                                            *)
(***************************************************************************)
\* the operator keys of the family that wins in the mapping M: range bounds
\* before $in before $ne before $exists
RangeKeys == {"$gt", "$lt", "$gte", "$lte"}
Family(M) ==
    IF \E k \in RangeKeys : Has(M, k) THEN RangeKeys
    ELSE IF Has(M, "$in") THEN {"$in"}
    ELSE IF Has(M, "$ne") THEN {"$ne"}
    ELSE IF Has(M, "$exists") THEN {"$exists"}
    ELSE {}
\* M without the keys outside its winning family
Restricted(M) == DictV(SelectSeq(M.items, LAMBDA e : e.k \in Family(M)))

\* C26: for a field whose value is a mapping the translator applies one
\* operator family, chosen in the order range bounds, $in, $ne, $exists; the
\* other keys of the mapping do not affect the condition, and a mapping with
\* none of these keys becomes a term leaf whose value is the mapping.
FieldDispatch ==
    (IsFieldFilter(mongo) /\ IsDict(FirstItem(mongo).v) /\ FirstItem(mongo).v.items # <<>>) =>
        LET f == FirstItem(mongo).k
            M == FirstItem(mongo).v
        IN  /\ Family(M) # {} => Translation = MongoQueryCondition(DictV(<<KV(f, Restricted(M))>>)).res
            /\ Family(M) = RangeKeys =>
                /\ Has(to_dict(Translation), "bool")
                /\ Len(Get(Get(to_dict(Translation), "bool"), "must").items) = Len(Restricted(M).items)
                /\ \A i \in 1..Len(Restricted(M).items) : Has(Get(Get(to_dict(Translation), "bool"), "must").items[i], "range")
            /\ Family(M) = {"$in"} => Translation = QueryCondition(StrV(f), Get(M, "$in"), StrV("terms"))
            /\ Family(M) = {"$ne"} => Translation = not_(QueryCondition(StrV(f), Get(M, "$ne"), StrV("term")))
            /\ Family(M) = {"$exists"} => Translation \in {exists(Field(f)), not_(exists(Field(f)))}
            /\ Family(M) = {} => Translation = QueryCondition(StrV(f), M, StrV("term"))
\* register a holds the translation of {f: {"$ne": "x", "$lt": 4}}, which
\* the caller still holds
FieldDispatchWitness ==
    /\ mongo \in MixedFilters /\ Has(FirstItem(mongo).v, "$ne") /\ Has(FirstItem(mongo).v, "$lt")
    /\ A = Translation
    /\ A = MongoQueryCondition(DictV(<<KV("f", DictV(<<KV("$lt", IntV(4))>>))>>)).res

RECURSIVE ClauseArity(_)
\* every bool mapping of the body has one clause key, and its must_not
\* clauses one child
ClauseArity(body) ==
    Has(body, "bool") =>
        LET clauses == Get(body, "bool").items IN
        /\ Len(clauses) = 1
        /\ clauses[1].k \in {"must", "should", "must_not"}
        /\ clauses[1].k = "must_not" => Len(clauses[1].v.items) = 1
        /\ \A i \in 1..Len(clauses[1].v.items) : ClauseArity(clauses[1].v.items[i])
\* the translation of the filter the caller holds, match_all when it raises
Translated == IF Raised(Translation) THEN match_all ELSE Translation
\* the condition of register a, the translation, and what &, |, ~ and the
\* combinators make of them
Produced ==
    {A, Translated, __and__(A, Translated), __or__(Translated, A), __invert__(A), __invert__(Translated),
     __invert__(__or__(A, Translated)), not_(and_(<<Translated, A, A>>)), or_(<<not_(A), __invert__(Translated)>>),
     __ne__(Field("g"), IntV(3))}

\* C22: in every body the algebra combinators or the translator produce,
\* every bool mapping has exactly one clause key among must / should /
\* must_not, and every must_not clause holds exactly one child body.
MustNotArity == \A x \in Produced : ClauseArity(to_dict(x))
\* register a holds the translation of a $or / $and filter with a $ne element,
\* and the caller holds a range filter
MustNotArityWitness ==
    /\ \E F \in LogicalFilters :
        /\ A = MongoQueryCondition(F).res
        /\ \E i \in 1..Len(ElementBodies(F)) : Has(ElementBodies(F)[i], "bool") /\ Has(Get(ElementBodies(F)[i], "bool"), "must_not")
    /\ mongo \in RangeFilters
    /\ Has(to_dict(Translated), "bool")

RECURSIVE NoGreaterThan(_)
\* no comparison of the tree carries gt, gte, > or >=
NoGreaterThan(n) ==
    /\ IsComparison(n) => n.op \notin {"gt", "gte", ">", ">="}
    /\ IsLogical(n) => \A i \in 1..Len(n.children) : NoGreaterThan(n.children[i])
\* the character c does not occur in the text s
Lacks(s, c) == \A i \in 1..Len(s) : s[i] # c
\* neither the tree nor its string carries a greater-than comparison
GreaterFree(tree) == NoGreaterThan(tree) /\ Lacks(_tree_to_string(tree), Chars(">")[1])
\* the strings "f <op> v" and "not(f <op> v)"
Rendering(f, op, v) == Returned(Chars(f) \o Chars(" ") \o Chars(op) \o Chars(" ") \o PyStr(v))
NotRendering(f, op, v) == Returned(Chars("not") \o Chars("(") \o Rendering(f, op, v).s \o Chars(")"))

\* C23: no comparison of a canonical string carries gt, gte, > or >=: f > v
\* is rendered not(f <= v) and f >= v not(f < v), their negations the bare
\* comparisons f <= v and f < v.
GreaterThanEliminated ==
    /\ \A x \in {A, Translated, __invert__(A), __invert__(Translated), __invert__(__or__(A, Translated))} :
        GreaterFree(rendered_tree(to_dict(x)))
    /\ A = __gt__(Field("f"), IntV(2)) =>
        /\ canon(A) = NotRendering("f", "<=", IntV(2))
        /\ canon(__invert__(A)) = Rendering("f", "<=", IntV(2))
    /\ A = __ge__(Field("f"), IntV(2)) =>
        /\ canon(A) = NotRendering("f", "<", IntV(2))
        /\ canon(__invert__(A)) = Rendering("f", "<", IntV(2))
    /\ A = __invert__(__gt__(Field("f"), IntV(2))) => canon(A) = Rendering("f", "<=", IntV(2))
    /\ A = __invert__(__ge__(Field("f"), IntV(2))) => canon(A) = Rendering("f", "<", IntV(2))
    /\ mongo = DictV(<<KV("f", DictV(<<KV("$gt", IntV(2))>>))>>) =>
        /\ canon(Translated) = NotRendering("f", "<=", IntV(2))
        /\ canon(not_(Translated)) = Rendering("f", "<=", IntV(2))
    /\ mongo = DictV(<<KV("f", DictV(<<KV("$gte", IntV(2))>>))>>) =>
        /\ canon(Translated) = NotRendering("f", "<", IntV(2))
        /\ canon(not_(Translated)) = Rendering("f", "<", IntV(2))
\* the caller holds ~(f >= 2), its canonical string just returned, and a
\* filter with the bounds $gt and $gte
GreaterThanEliminatedWitness ==
    /\ A = __invert__(__ge__(Field("f"), IntV(2)))
    /\ Normalized("a") /\ out.res = Rendering("f", "<", IntV(2))
    /\ Has(mongo, "f") /\ IsDict(Get(mongo, "f")) /\ Has(Get(mongo, "f"), "$gt") /\ Has(Get(mongo, "f"), "$gte")

(***************************************************************************)
(* Conditions, limits, scorers and wrappers side by side: register b holds *)
(* an operand the caller wrote, register a the result of the last          *)
(* operator applied; out records the last call, its operands and what it   *)
(* returned or raised.                                                     *)
(***************************************************************************)
\* composites of the inner condition plus scorers of what register a holds
MaxWS == 2

\* x & y: Python applies the method of the class of the left operand
Amp(x, y) ==
    IF IsQueryCondition(x) THEN __and__(x, y)
    ELSE IF IsLimit(x) THEN Limit__and__(x, y)
    ELSE IF IsScriptScore(x) THEN ScriptScore__and__(x, y)
    ELSE IF IsQueryConditionWithScoring(x) THEN QueryConditionWithScoring__and__(x, y)
    ELSE TypeError
\* x | y
Bar(x, y) ==
    IF IsQueryCondition(x) THEN __or__(x, y)
    ELSE IF IsLimit(x) THEN Limit__or__(x, y)
    ELSE IF IsScriptScore(x) THEN ScriptScore__or__(x, y)
    ELSE IF IsQueryConditionWithScoring(x) THEN QueryConditionWithScoring__or__(x, y)
    ELSE TypeError
\* ~x: Limit and ScriptScore define no __invert__
Tilde(x) ==
    IF IsQueryCondition(x) THEN __invert__(x)
    ELSE IF IsQueryConditionWithScoring(x) THEN QueryConditionWithScoring__invert__(x)
    ELSE TypeError
\* x.to_dict(): Limit and ScriptScore define no to_dict
ToDict(x) ==
    IF IsQueryCondition(x) THEN to_dict(x)
    ELSE IF IsQueryConditionWithScoring(x) THEN QueryConditionWithScoring_to_dict(x)
    ELSE AttributeError

\* two scorers, the second one with parameters
S1 == ScriptScore(StrV("s1"), None)
S2 == ScriptScore(StrV("s2"), DictV(<<KV("k", IntV(3))>>))
\* the limits of run_limit_tests
Limits == {Limit(IntV(3)), Limit(IntV(4))}
\* query bodies written by hand
Handwritten ==
    {IntV(3), ListV(<<IntV(3)>>), EmptyDict,
     DictV(<<KV("function_score", EmptyDict)>>),
     DictV(<<KV("query", IntV(3))>>),
     DictV(<<KV("bool", DictV(<<KV("must", ListV(<<IntV(3), DictV(<<KV("term", DictV(<<KV("f", StrV("x"))>>))>>)>>))>>))>>),
     DictV(<<KV("bool", DictV(<<KV("should", ListV(<<DictV(<<KV("g", StrV("x"))>>), DictV(<<KV("term", DictV(<<KV("f", StrV("x"))>>))>>)>>))>>))>>)}
\* what the caller writes: conditions, limits, scorers and bodies
Written == {__eq__(Field("f"), StrV("x"))} \cup Limits \cup {S1, S2} \cup Handwritten
\* the keyword arguments the caller gives to Query.with_scoring
Keywords ==
    {[and_scorers |-> None, or_scorers |-> None, limit |-> IntV(3)],
     [and_scorers |-> ListV(<<S1>>), or_scorers |-> None, limit |-> IntV(3)],
     [and_scorers |-> None, or_scorers |-> ListV(<<S2>>), limit |-> Limit(IntV(4))],
     [and_scorers |-> ListV(<<>>), or_scorers |-> ListV(<<S1>>), limit |-> None],
     [and_scorers |-> ListV(<<S1, S2>>), or_scorers |-> None, limit |-> None],
     [and_scorers |-> ListV(<<S1>>), or_scorers |-> ListV(<<S2>>), limit |-> None]}

\* the size of an operand: composites of its condition plus scorers
Size(x) ==
    IF IsQueryCondition(x) THEN BoolCount(to_dict(x))
    ELSE IF IsQueryConditionWithScoring(x) THEN BoolCount(to_dict(x.condition)) + Len(x.and_scorers.items) + Len(x.or_scorers.items)
    ELSE 0

\* b = x
Write(x) ==
    /\ conds' = [conds EXCEPT !["b"] = x]
    /\ out' = None
    /\ UNCHANGED mongo

\* conds[r] = res, the value of a call; when the call raised, the register
\* keeps its value and out holds the exception
Bind(r, res) ==
    IF Raised(res)
    THEN /\ out' = res
         /\ UNCHANGED <<conds, mongo>>
    ELSE /\ Size(res) <= MaxWS
         /\ conds' = [conds EXCEPT ![r] = res]
         /\ out' = None
         /\ UNCHANGED mongo

\* a = conds[r] & conds[s]
AmpOp(r, s) == Bind("a", Amp(conds[r], conds[s]))
\* a = conds[r] | conds[s]
BarOp(r, s) == Bind("a", Bar(conds[r], conds[s]))
\* a = ~a
TildeOp == Bind("a", Tilde(conds["a"]))
\* conds[r] = Query.with_scoring(conds[r], and_scorers=.., or_scorers=.., limit=..)
WithScoring(r, k) ==
    /\ IsQueryCondition(conds[r])
    /\ Bind(r, with_scoring(conds[r], k.and_scorers, k.or_scorers, k.limit))
\* a.to_dict()
Serialize ==
    /\ out' = [call |-> "to_dict", res |-> ToDict(conds["a"])]
    /\ UNCHANGED <<conds, mongo>>
\* normalized_readable_query(body); preceded by a call that unwraps "query"
\* in the mapping the caller holds in register b
CanonicalizeInPlace(body) ==
    /\ out' = [call |-> "normalized_readable_query", body |-> body, res |-> normalized_readable_query(body)]
    /\ conds' = [conds EXCEPT !["b"] = IF body = @ /\ IsDict(body) /\ Has(body, "query") THEN Get(body, "query") ELSE @]
    /\ UNCHANGED mongo
Canonicalize(body) ==
    /\ out' = [call |-> "normalized_readable_query", body |-> body, res |-> normalized_readable_query(body)]
    /\ UNCHANGED <<conds, mongo>>

NextWS ==
    \/ \E x \in Written : Write(x)
    \/ \E p \in {<<"a", "b">>, <<"b", "a">>, <<"b", "b">>} : AmpOp(p[1], p[2])
    \/ \E p \in {<<"a", "b">>, <<"b", "a">>, <<"b", "b">>} : BarOp(p[1], p[2])
    \/ TildeOp
    \/ \E r \in Regs, k \in Keywords : WithScoring(r, k)
    \/ Serialize
    \/ ~Raised(ToDict(conds["a"])) /\ Canonicalize(ToDict(conds["a"]))
    \/ "t" \in DOMAIN conds["b"] /\ Canonicalize(conds["b"])

SpecWS == Init /\ [][NextWS]_vars

\* the last call
IsCall(name) == "call" \in DOMAIN out /\ out.call = name

(***************************************************************************)
(* Claims about SpecWS.                                                    *)
(***************************************************************************)
\* the two registers as left and right operand, in both orders
OperandPairs == {<<A, B>>, <<B, A>>}
\* the limit an operand carries, or None
LimitOf(x) ==
    IF IsLimit(x) THEN x.limit
    ELSE IF IsQueryConditionWithScoring(x) /\ x.limit # None THEN x.limit.limit
    ELSE None
\* the least / the greatest of a non-empty set of ints
Least(S) == CHOOSE p \in S : \A q \in S : p.n <= q.n
Greatest(S) == CHOOSE p \in S : \A q \in S : p.n >= q.n

\* C12: when both operands of & carry a limit the result carries the smaller
\* one, of | the larger one; when one operand carries a limit the result
\* carries that limit; the limit after a chain of & is the least of the
\* limits supplied.
LimitCombination ==
    /\ \A p \in OperandPairs :
        LET carried == {LimitOf(p[1]), LimitOf(p[2])} \ {None} IN
        carried # {} =>
            /\ ~Raised(Amp(p[1], p[2])) => LimitOf(Amp(p[1], p[2])) = Least(carried)
            /\ ~Raised(Bar(p[1], p[2])) => LimitOf(Bar(p[1], p[2])) = Greatest(carried)
    /\ \A p \in OperandPairs : \A l \in Limits :
        (~Raised(Amp(p[1], p[2])) /\ ~Raised(Amp(Amp(p[1], p[2]), l))) =>
            LimitOf(Amp(Amp(p[1], p[2]), l)) = Least(({LimitOf(p[1]), LimitOf(p[2])} \ {None}) \cup {l.limit})

\* register a holds w & b for a wrapper w with limit 3 and the wrapper b with
\* limit 4, and carries the limit 3
LimitCombinationWitness ==
    /\ IsQueryConditionWithScoring(B) /\ LimitOf(B) = IntV(4)
    /\ \E k \in Keywords : /\ k.limit = IntV(3)
                           /\ A = Amp(with_scoring(match_all, k.and_scorers, k.or_scorers, k.limit), B)
    /\ LimitOf(A) = IntV(3)

HasAndScorers(x) == IsQueryConditionWithScoring(x) /\ x.and_scorers.items # <<>>
HasOrScorers(x) == IsQueryConditionWithScoring(x) /\ x.or_scorers.items # <<>>
\* the values the next operator call can return
Results ==
    {Tilde(A)}
    \cup {Amp(p[1], p[2]) : p \in OperandPairs} \cup {Bar(p[1], p[2]) : p \in OperandPairs}
    \cup {with_scoring(B, k.and_scorers, k.or_scorers, k.limit) : k \in Keywords}

\* C13: no wrapper held or returned has and_scorers and or_scorers both
\* non-empty; wrapper-with-or-scorers & scorer, wrapper-with-and-scorers |
\* scorer, the combination of a wrapper with and-scorers and one with
\* or-scorers, and with_scoring with both kinds raise ValueError.
ScorerExclusivity ==
    /\ \A x \in {A, B} \cup Results : ~(HasAndScorers(x) /\ HasOrScorers(x))
    /\ \A p \in OperandPairs :
        /\ (HasOrScorers(p[1]) /\ IsScriptScore(p[2])) => (Amp(p[1], p[2]) = ValueError /\ Amp(p[2], p[1]) = ValueError)
        /\ (HasAndScorers(p[1]) /\ IsScriptScore(p[2])) => (Bar(p[1], p[2]) = ValueError /\ Bar(p[2], p[1]) = ValueError)
        /\ (HasAndScorers(p[1]) /\ HasOrScorers(p[2])) =>
            /\ Amp(p[1], p[2]) = ValueError /\ Amp(p[2], p[1]) = ValueError
            /\ Bar(p[1], p[2]) = ValueError /\ Bar(p[2], p[1]) = ValueError
    /\ \A k \in Keywords :
        (IsQueryCondition(B) /\ k.and_scorers # None /\ k.or_scorers # None /\ k.and_scorers.items # <<>> /\ k.or_scorers.items # <<>>) =>
            with_scoring(B, k.and_scorers, k.or_scorers, k.limit) = ValueError

\* register a holds a wrapper with or-scorers, register b a scorer, and a & b
\* has raised ValueError
ScorerExclusivityWitness ==
    /\ HasOrScorers(A) /\ IsScriptScore(B)
    /\ Amp(A, B) = ValueError /\ out = ValueError

\* the body of a result, or the exception raised on the way
Body(x) == IF Raised(x) THEN x ELSE ToDict(x)

\* C14: for a condition c and a scorer, a limit or a wrapper x, c & x and
\* x & c serialize to the same body, and so do c | x and x | c.
OperandOrder ==
    \A p \in OperandPairs :
        (IsQueryCondition(p[1]) /\ (IsScriptScore(p[2]) \/ IsLimit(p[2]) \/ IsQueryConditionWithScoring(p[2]))) =>
            /\ Body(Amp(p[1], p[2])) = Body(Amp(p[2], p[1]))
            /\ Body(Bar(p[1], p[2])) = Body(Bar(p[2], p[1]))

\* register a holds c | b for the condition c = match_all and the scorer b,
\* and its body is that of b | c
OperandOrderWitness ==
    /\ IsScriptScore(B)
    /\ A = Bar(match_all, B)
    /\ IsQueryConditionWithScoring(A) /\ ToDict(A) = ToDict(Bar(B, match_all))

SerializationShape ==
    (IsCall("to_dict") /\ IsQueryConditionWithScoring(A)) =>
        LET body == out.res
            scorers == A.and_scorers.items \o A.or_scorers.items
        IN  /\ IsDict(body)
            /\ {body.items[i].k : i \in 1..Len(body.items)} = (IF A.limit = None THEN {"query"} ELSE {"size", "query"})
            /\ Len(body.items) = (IF A.limit = None THEN 1 ELSE 2)
            /\ A.limit # None => Get(body, "size") = A.limit.limit
            /\ scorers = <<>> => Get(body, "query") = to_dict(A.condition)
            /\ scorers # <<>> =>
                /\ Len(Get(body, "query").items) = 1
                /\ Has(Get(body, "query"), "function_score")
                /\ LET function_score == Get(Get(body, "query"), "function_score")
                   IN  /\ Get(function_score, "query") = to_dict(A.condition)
                       /\ Len(Get(function_score, "functions").items) = Len(scorers)
                       /\ \A i \in 1..Len(scorers) :
                            Get(function_score, "functions").items[i] =
                                DictV(<<KV("script_score", DictV(<<KV("script", DictV(<<KV("source", scorers[i].script), KV("params", scorers[i].params)>>))>>))>>)
                       /\ Get(function_score, "score_mode") = StrV(IF A.and_scorers.items # <<>> THEN "multiply" ELSE "max")

\* a wrapper with two or-scorers and a limit has been serialized
SerializationShapeWitness ==
    /\ IsCall("to_dict") /\ IsQueryConditionWithScoring(A)
    /\ Len(A.or_scorers.items) = 2 /\ A.limit # None
    /\ Get(Get(Get(out.res, "query"), "function_score"), "score_mode") = StrV("max")

RECURSIVE KnownShape(_)
\* a mapping that (inside "query", when it has that key) is a bool whose
\* clause elements have a known shape, or a term, terms, range, exists or
\* match_all leaf
KnownShape(body) ==
    /\ IsDict(body)
    /\ LET query == IF Has(body, "query") THEN Get(body, "query") ELSE body IN
        /\ IsDict(query)
        /\ \E k \in {"bool", "term", "terms", "range", "exists", "match_all"} : Has(query, k)
        /\ Has(query, "bool") =>
            \A k \in {"must", "should", "must_not"} :
                Has(Get(query, "bool"), k) =>
                    \A i \in 1..Len(Get(Get(query, "bool"), k).items) : KnownShape(Get(Get(query, "bool"), k).items[i])

\* C19: normalized_readable_query raises ValueError for a body that, at the
\* top level or in an element of a bool clause, is no mapping or has none of
\* the known shapes.
UnsupportedRejected ==
    (IsCall("normalized_readable_query") /\ ~KnownShape(out.body)) => out.res = ValueError

====
